---- MODULE Spec2Model ----
(***************************************************************************)
(* The Merkle path-tree of syncron (src/src/datastructures/merkle_tree.rs) *)
(* and the tree-vs-tree diff, as a state machine over two trees A and B.   *)
(*                                                                         *)
(* A tree is a function from paths (sequences of segments, <<>> the root)  *)
(* to nodes.  The raw child pointers of the source are the path            *)
(* extensions: the child of the node at p under key k is the node at       *)
(* Append(p, k).  The parent back pointer is written by the source and     *)
(* never read; it is Front(p) here.                                        *)
(*                                                                         *)
(* BLAKE3 is a symbolic injective digest: Digest(input) is a term holding  *)
(* its input, so two digests are equal exactly when their inputs are       *)
(* (no collisions).  Segments and hashes are atomic tokens of the input.   *)
(***************************************************************************)
EXTENDS Integers, Sequences, FiniteSets, TLC

\* Bounds of the model.
NumSegs == 2
MaxDepth == 2
NumHashes == 2
MaxTime == 1
MaxOps == 3
MaxMutations == 4
MaxInserts == 4
MaxAncestors == 1
MaxLayers == 3

Segs == 1..NumSegs
EntryHashes == 1..NumHashes
Times == 0..MaxTime
TreeIds == {"A", "B"}

\* Segment slices handed to the operations: every length up to MaxDepth.
SegSeqs == UNION {[1..k -> Segs] : k \in 0..MaxDepth}

VARIABLES trees, last, found, received, steps, panicked

\* The nodes allocated with Box::new and not freed since, per tree (the root
\* is a field of MerkleTree, not a Box).
VARIABLES heap

\* The scanner (src/src/filesystem/scan.rs): the state of the spawned scan,
\* the entries the walker has yet to yield, the channel, its receiving side,
\* what the consumer's last recv returned, the message of the panic that
\* ended the scan, the contents of the files hashed, and the last decision
\* of should_retain_path.
VARIABLES scan, todo, queue, rx, last_recv, scan_panic, hashed, retain

treeVars == <<trees, last, found, received, steps, panicked, heap>>

scanVars == <<scan, todo, queue, rx, last_recv, scan_panic, hashed>>

vars == <<trees, last, found, received, steps, panicked, heap,
          scan, todo, queue, rx, last_recv, scan_panic, hashed, retain>>

--------------------------------------------------------------------------
\* Hashes.

\* The hash carried by a MerkleEntry (a file's digest of name and contents).
EntryHash(h) == [kind |-> "entry", v |-> h]

\* blake3::Hasher::new(), update(..)*, finalize() over the updates `input`.
Digest(input) == [kind |-> "blake3", v |-> input]

\* A MerkleEntry: its path, hash and last-modified.
MerkleEntry(path, h, m) == [path |-> path, hash |-> EntryHash(h), last_modified |-> m]

get_hash(data) == data.hash

get_last_modified(data) == data.last_modified

get_path(data) == data.path

\* The entries a caller passes for the node at `segments` (compute_tree
\* derives the segments from the entry's own path).
EntriesAt(segments) == {MerkleEntry(segments, h, m) : h \in EntryHashes, m \in Times}

--------------------------------------------------------------------------
\* BTreeMap<K, NonNull<TreeNode>>: the keys in iteration (ascending) order.

RECURSIVE BTreeInsertAt(_, _, _)
BTreeInsertAt(keys, k, i) ==
    IF i > Len(keys) THEN Append(keys, k)
    ELSE IF keys[i] = k THEN keys
    ELSE IF keys[i] > k THEN SubSeq(keys, 1, i - 1) \o <<k>> \o SubSeq(keys, i, Len(keys))
    ELSE BTreeInsertAt(keys, k, i + 1)

\* A map that iterates in insertion order, as a Vec of keys would.
VecInsert(keys, k) == IF \E i \in 1..Len(keys) : keys[i] = k THEN keys ELSE Append(keys, k)

BTreeInsert(keys, k) == BTreeInsertAt(keys, k, 1)

BTreeRemove(keys, k) == SelectSeq(keys, LAMBDA x : x # k)

ContainsKey(keys, k) == \E i \in 1..Len(keys) : keys[i] = k

--------------------------------------------------------------------------
\* Tree nodes.

TreeNode(segment, data) ==
    [segment |-> segment,
     hash |-> get_hash(data),
     last_modified |-> get_last_modified(data),
     data |-> data,
     children |-> <<>>]

\* MerkleTree::new: a single root node.  The root segment is token 0.
RootSegment == 0

NewTree(data) == [p \in {<<>>} |-> TreeNode(RootSegment, data)]

IsPrefix(p, q) == Len(p) <= Len(q) /\ SubSeq(q, 1, Len(p)) = p

\* The paths of the subtree owned by the node at c.
Subtree(t, c) == {q \in DOMAIN t : IsPrefix(c, q)}

Child(p, k) == Append(p, k)

\* The outcome of a mutating call: it returned, or it panicked (and then
\* the tree is as it was: every expect precedes the first write).
Returned(t) == [panic |-> FALSE, tree |-> t]

Panic(t) == [panic |-> TRUE, tree |-> t]

\* TreeNode::recompute_node at the node at p.
recompute_node(t, p, now) ==
    IF t[p].children = <<>> THEN t
    ELSE LET keys == t[p].children
             input == [i \in 1..Len(keys) |->
                          <<t[Child(p, keys[i])].hash, t[Child(p, keys[i])].segment>>]
         IN [t EXCEPT ![p].hash = Digest(input), ![p].last_modified = now]

\* TreeNode::get from the node at p: the path of the node found.
RECURSIVE NodeGet(_, _, _)
NodeGet(t, p, segments) ==
    IF Len(segments) = 0 THEN [panic |-> FALSE, node |-> p]
    ELSE IF ~ContainsKey(t[p].children, segments[1]) THEN [panic |-> TRUE, node |-> p]
    ELSE NodeGet(t, Child(p, segments[1]), Tail(segments))

\* TreeNode::insert at the node at p.
RECURSIVE NodeInsert(_, _, _, _, _)
NodeInsert(t, p, segments, data, now) ==
    IF Len(segments) = 1 THEN
        LET k == segments[1]
            c == Child(p, k)
            \* children.insert overwrites the pointer stored under k: the node
            \* it pointed to, and all it owns, is no longer part of the tree.
            kept == DOMAIN t \ Subtree(t, c)
            t1 == [q \in kept \cup {c} |->
                     IF q = c THEN TreeNode(k, data)
                     ELSE IF q = p THEN [t[p] EXCEPT !.children = BTreeInsert(@, k)]
                     ELSE t[q]]
        IN Returned(recompute_node(t1, p, now))
    ELSE IF Len(segments) = 0 THEN Panic(t)
    ELSE IF ~ContainsKey(t[p].children, segments[1]) THEN Panic(t)
    ELSE LET r == NodeInsert(t, Child(p, segments[1]), Tail(segments), data, now)
         IN IF r.panic THEN r ELSE Returned(recompute_node(r.tree, p, now))

\* TreeNode::update at the node at p.
RECURSIVE NodeUpdate(_, _, _, _, _)
NodeUpdate(t, p, segments, data, now) ==
    IF Len(segments) = 0 THEN Returned([t EXCEPT ![p].data = data])
    ELSE IF ~ContainsKey(t[p].children, segments[1]) THEN Panic(t)
    ELSE LET r == NodeUpdate(t, Child(p, segments[1]), Tail(segments), data, now)
         IN IF r.panic THEN r ELSE Returned(recompute_node(r.tree, p, now))

\* TreeNode::remove at the node at p.
RECURSIVE NodeRemove(_, _, _, _)
NodeRemove(t, p, segments, now) ==
    IF Len(segments) = 1 THEN
        IF ~ContainsKey(t[p].children, segments[1]) THEN Panic(t)
        ELSE LET k == segments[1]
                 kept == DOMAIN t \ Subtree(t, Child(p, k))
             IN Returned([q \in kept |->
                            IF q = p THEN [t[p] EXCEPT !.children = BTreeRemove(@, k)]
                            ELSE t[q]])
    ELSE IF Len(segments) = 0 THEN Panic(t)
    ELSE IF ~ContainsKey(t[p].children, segments[1]) THEN Panic(t)
    ELSE LET r == NodeRemove(t, Child(p, segments[1]), Tail(segments), now)
         IN IF r.panic THEN r ELSE Returned(recompute_node(r.tree, p, now))

--------------------------------------------------------------------------
\* The diff.  HashMap<&BHash, (u64, &MerkleEntry)> is a function from hashes
\* to (last_modified, entry); an insert under a key already present replaces
\* the value.

EmptyMap == [h \in {} |-> 0]

MapInsert(m, h, v) == [x \in DOMAIN m \cup {h} |-> IF x = h THEN v ELSE m[x]]

MapExtend(m, m2) ==
    [x \in DOMAIN m \cup DOMAIN m2 |-> IF x \in DOMAIN m2 THEN m2[x] ELSE m[x]]

None == [some |-> FALSE, left |-> EmptyMap, right |-> EmptyMap]

Some(l, r) == [some |-> TRUE, left |-> l, right |-> r]

\* (&node.hash, (node.last_modified, &node.data))
DiffEntry(m, node) ==
    MapInsert(m, node.hash, [last_modified |-> node.last_modified, entry |-> node.data])

\* children.values().map(..).collect() from the i-th child on.
RECURSIVE CollectChildren(_, _, _, _)
CollectChildren(t, p, i, m) ==
    IF i > Len(t[p].children) THEN m
    ELSE CollectChildren(t, p, i + 1, DiffEntry(m, t[Child(p, t[p].children[i])]))

\* A leaf-leaf comparison that reports both nodes, each on its side.
LeafDifferenceBothSides(a, b) ==
    Some(MapInsert(EmptyMap, a.hash,
                   [last_modified |-> a.last_modified, entry |-> a.data]),
         MapInsert(EmptyMap, b.hash,
                   [last_modified |-> b.last_modified, entry |-> b.data]))

\* A leaf-leaf comparison that lets the older node win.
LeafDifferenceOlderWins(a, b) ==
    IF a.last_modified < b.last_modified
    THEN Some(MapInsert(EmptyMap, a.hash,
                        [last_modified |-> a.last_modified, entry |-> a.data]),
              EmptyMap)
    ELSE Some(EmptyMap,
              MapInsert(EmptyMap, b.hash,
                        [last_modified |-> a.last_modified, entry |-> b.data]))

\* The two nodes a leaf-leaf comparison reports.
LeafDifference(a, b) ==
    IF a.last_modified > b.last_modified
    THEN Some(MapInsert(EmptyMap, a.hash,
                        [last_modified |-> a.last_modified, entry |-> a.data]),
              EmptyMap)
    ELSE Some(EmptyMap,
              MapInsert(EmptyMap, b.hash,
                        [last_modified |-> a.last_modified, entry |-> b.data]))

\* A merge loop that ends as soon as either map is exhausted.
RECURSIVE MergeLoopUntilEitherEnds(_, _, _, _, _, _)
MergeLoopUntilEitherEnds(ta, tb, p, i, j, acc) ==
    LET ka == ta[p].children
        kb == tb[p].children
    IN IF i <= Len(ka) /\ j <= Len(kb) THEN
            IF ka[i] < kb[j] THEN
                MergeLoopUntilEitherEnds(ta, tb, p, i + 1, j,
                          [acc EXCEPT !.diff1 = DiffEntry(@, ta[Child(p, ka[i])])])
            ELSE IF ka[i] > kb[j] THEN
                MergeLoopUntilEitherEnds(ta, tb, p, i, j + 1,
                          [acc EXCEPT !.diff2 = DiffEntry(@, tb[Child(p, kb[j])])])
            ELSE MergeLoopUntilEitherEnds(ta, tb, p, i + 1, j + 1,
                           [acc EXCEPT !.common = Append(@, ka[i])])
       ELSE acc

\* The merge loop of find_diff_in_children over the two key-sorted maps,
\* with next_self the i-th key of a and next_other the j-th key of b.
RECURSIVE MergeLoop(_, _, _, _, _, _)
MergeLoop(ta, tb, p, i, j, acc) ==
    LET ka == ta[p].children
        kb == tb[p].children
    IN IF i <= Len(ka) /\ j <= Len(kb) THEN
            IF ka[i] < kb[j] THEN
                MergeLoop(ta, tb, p, i + 1, j,
                          [acc EXCEPT !.diff1 = DiffEntry(@, ta[Child(p, ka[i])])])
            ELSE IF ka[i] > kb[j] THEN
                MergeLoop(ta, tb, p, i, j + 1,
                          [acc EXCEPT !.diff2 = DiffEntry(@, tb[Child(p, kb[j])])])
            ELSE MergeLoop(ta, tb, p, i + 1, j + 1,
                           [acc EXCEPT !.common = Append(@, ka[i])])
       ELSE IF i <= Len(ka) THEN
            MergeLoop(ta, tb, p, i + 1, j,
                      [acc EXCEPT !.diff1 = DiffEntry(@, ta[Child(p, ka[i])])])
       ELSE IF j <= Len(kb) THEN
            MergeLoop(ta, tb, p, i, j + 1,
                      [acc EXCEPT !.diff2 = DiffEntry(@, tb[Child(p, kb[j])])])
       ELSE acc

RECURSIVE NodeFindDifference(_, _, _)
RECURSIVE ProcessCommon(_, _, _, _, _, _)

\* common.iter().filter_map(find_difference).for_each(extend), from the
\* i-th common key on.
ProcessCommon(ta, tb, p, common, i, acc) ==
    IF i > Len(common) THEN acc
    ELSE LET r == NodeFindDifference(ta, tb, Child(p, common[i]))
         IN ProcessCommon(ta, tb, p, common, i + 1,
                IF r.some
                THEN [acc EXCEPT !.diff1 = MapExtend(@, r.left),
                                 !.diff2 = MapExtend(@, r.right)]
                ELSE acc)

\* find_diff_in_children returning None when it collected nothing.
find_diff_in_children_or_none(ta, tb, p) ==
    LET merged == MergeLoop(ta, tb, p, 1, 1,
                            [diff1 |-> EmptyMap, diff2 |-> EmptyMap, common |-> <<>>])
        done == ProcessCommon(ta, tb, p, merged.common, 1, merged)
    IN IF DOMAIN done.diff1 = {} /\ DOMAIN done.diff2 = {} THEN None
       ELSE Some(done.diff1, done.diff2)

\* find_diff_in_children on the children of the two nodes at p.
find_diff_in_children(ta, tb, p) ==
    LET merged == MergeLoop(ta, tb, p, 1, 1,
                            [diff1 |-> EmptyMap, diff2 |-> EmptyMap, common |-> <<>>])
        done == ProcessCommon(ta, tb, p, merged.common, 1, merged)
    IN Some(done.diff1, done.diff2)

\* TreeNode::find_difference of the node at p of ta (self) and of tb (other).
NodeFindDifference(ta, tb, p) ==
    LET a == ta[p]
        b == tb[p]
        a_empty == a.children = <<>>
        b_empty == b.children = <<>>
    IN IF a.hash = b.hash THEN None
       ELSE IF a_empty /\ b_empty THEN LeafDifference(a, b)
       ELSE IF a_empty THEN Some(EmptyMap, CollectChildren(tb, p, 1, EmptyMap))
       ELSE IF b_empty THEN Some(CollectChildren(ta, p, 1, EmptyMap), EmptyMap)
       ELSE find_diff_in_children(ta, tb, p)

\* diffN.values().map(|(_, entry)| entry.get_path()).collect()
Paths(m) == {get_path(m[h].entry) : h \in DOMAIN m}

\* The "x moved to y" lines printed for the hashes found on both sides.
Moves(diff1, diff2) ==
    {IF diff1[h].last_modified < diff2[h].last_modified
     THEN <<get_path(diff1[h].entry), get_path(diff2[h].entry)>>
     ELSE <<get_path(diff2[h].entry), get_path(diff1[h].entry)>>
       : h \in DOMAIN diff1 \cap DOMAIN diff2}

\* MerkleTree::find_difference: None, or the two path collections.
FindDifference(ta, tb) ==
    LET r == NodeFindDifference(ta, tb, <<>>)
    IN IF ~r.some THEN [some |-> FALSE, left |-> {}, right |-> {}, moved |-> {}]
       ELSE [some |-> TRUE, left |-> Paths(r.left), right |-> Paths(r.right),
             moved |-> Moves(r.left, r.right)]

--------------------------------------------------------------------------
\* The scanner.

\* What Gitignore::matched returns for a path.
Match == {"None", "Ignore", "Whitelist"}

is_ignore(m) == m = "Ignore"

is_whitelist(m) == m = "Whitelist"

\* JwalkState: whether there are global patterns (gitignore_global is Some),
\* the number of layers of gitignore_files (innermost last) and
\* is_in_git_repo.  What a layer says of a path is an input of
\* should_retain_path.
JwalkState(global, files, in_repo) ==
    [gitignore_global |-> global, gitignore_files |-> files, is_in_git_repo |-> in_repo]

\* iter().rev().enumerate().find_map(..) over the layers, with passes[i]
\* what the closure's test says of layer i: the index, counted from the last
\* layer, of the first layer from the last one on that passes; -1 stands
\* for None.
RECURSIVE FindLayer(_, _)
FindLayer(passes, layer) ==
    IF layer >= Len(passes) THEN -1
    ELSE IF passes[Len(passes) - layer] THEN layer
    ELSE FindLayer(passes, layer + 1)

\* enumerate() over the layers without rev(): indices count from the
\* outermost layer.
RECURSIVE FindLayerFromOutermost(_, _)
FindLayerFromOutermost(passes, layer) ==
    IF layer >= Len(passes) THEN -1
    ELSE IF passes[layer + 1] THEN layer
    ELSE FindLayerFromOutermost(passes, layer + 1)

\* should_retain_path without rev().
should_retain_path_outermost_first(matches, global_match, read_dir_state) ==
    IF ~read_dir_state.is_in_git_repo THEN TRUE
    ELSE LET ignored_at_layer ==
                 FindLayerFromOutermost([i \in 1..Len(matches) |-> is_ignore(matches[i])], 0)
             whitelisted_at_layer ==
                 FindLayerFromOutermost([i \in 1..Len(matches) |-> is_whitelist(matches[i])], 0)
             is_ignored_by_global ==
                 read_dir_state.gitignore_global /\ is_ignore(global_match)
         IN IF ignored_at_layer = -1 /\ whitelisted_at_layer = -1
            THEN ~is_ignored_by_global
            ELSE IF ignored_at_layer = -1 THEN TRUE
            ELSE IF whitelisted_at_layer = -1 THEN FALSE
            ELSE whitelisted_at_layer < ignored_at_layer

\* should_retain_path for a path of which layer i of gitignore_files says
\* matches[i] and the global patterns say global_match.
should_retain_path(matches, global_match, read_dir_state) ==
    IF ~read_dir_state.is_in_git_repo THEN TRUE
    ELSE LET ignored_at_layer ==
                 FindLayer([i \in 1..Len(matches) |-> is_ignore(matches[i])], 0)
             whitelisted_at_layer ==
                 FindLayer([i \in 1..Len(matches) |-> is_whitelist(matches[i])], 0)
             is_ignored_by_global ==
                 read_dir_state.gitignore_global /\ is_ignore(global_match)
         IN IF ignored_at_layer = -1 /\ whitelisted_at_layer = -1
            THEN ~is_ignored_by_global
            ELSE IF ignored_at_layer = -1 THEN TRUE
            ELSE IF whitelisted_at_layer = -1 THEN FALSE
            ELSE whitelisted_at_layer < ignored_at_layer

\* What the layers can say of one path.
Matches(read_dir_state) == [1..read_dir_state.gitignore_files -> Match]

\* The decisions should_retain_path can take in a directory, over what the
\* patterns say of a child.
RetainOutcomes(read_dir_state) ==
    {should_retain_path(matches, global_match, read_dir_state) :
        matches \in Matches(read_dir_state), global_match \in Match}

\* The contents of a file, as a token; the file's length is the token.
Contents == 1..NumHashes

\* Vec::new(): the hash of a Directory entry of the scanner.
EmptyHash == [kind |-> "empty", v |-> 0]

\* MerkleEntry::Directory(MerkleDir {path, last_modified: 0, hash: Vec::new()})
ScanDirectory(path) ==
    [kind |-> "Directory", path |-> path, last_modified |-> 0, file_size |-> 0,
     hash |-> EmptyHash]

\* Hasher::new(), update_mmap_rayon(&filepath), finalize(): the digest of
\* the file's contents.
ScanFileHash(path, contents) == Digest(<<contents>>)

\* MerkleEntry::File(MerkleFile {path, last_modified, file_size, hash})
ScanFile(path, contents, m) ==
    [kind |-> "File", path |-> path, last_modified |-> m, file_size |-> contents,
     hash |-> ScanFileHash(path, contents)]

\* MerkleFile::from_path of data.rs: the digest of the file's name and
\* contents.
from_path_hash(path, contents) == Digest(<<path[Len(path)], contents>>)

\* An entry the walker has yet to yield: a directory (read once
\* process_read_dir ran on it, with the state its children inherit), a file,
\* or something else (a symbolic link).
NoState == JwalkState(FALSE, 0, FALSE)

DirItem(path, read, state) == [path |-> path, kind |-> "dir", read |-> read, state |-> state]

LeafItem(path, kind) == [path |-> path, kind |-> kind, read |-> TRUE, state |-> NoState]

\* What a directory listing holds under a name.
ListingKinds == {"absent", "err", "dir", "file", "other"}

\* The messages of the panics of the scan.
GlobalIgnorePanic == "error building global .gitignore"

AddIgnorePanic == "error adding .gitignore"

SendPanic == "unable to send"

IoPanics ==
    {"unable to hash", "unable to open file", "unable to read metadata",
     "unable to read last modified"}

NoPanic == "none"

\* What recv returned last: nothing yet, an entry, or RecvError.
NoRecv == [ok |-> FALSE, closed |-> FALSE, entry |-> ScanDirectory(<<>>)]

RecvOk(entry) == [ok |-> TRUE, closed |-> FALSE, entry |-> entry]

RecvError == [ok |-> FALSE, closed |-> TRUE, entry |-> ScanDirectory(<<>>)]

\* The last call of should_retain_path: its inputs and what it returned.
NoDecision ==
    [called |-> FALSE, matches |-> <<>>, global_match |-> "None",
     read_dir_state |-> NoState, result |-> TRUE]

Decision(matches, global_match, read_dir_state) ==
    [called |-> TRUE, matches |-> matches, global_match |-> global_match,
     read_dir_state |-> read_dir_state,
     result |-> should_retain_path(matches, global_match, read_dir_state)]

--------------------------------------------------------------------------
\* State machine.

NoData == MerkleEntry(<<>>, 0, 0)

\* compute_tree's root entry: MerkleDir::from_path of the scanned directory
\* (the digest of its name, last_modified 0).
RootEntry == MerkleEntry(<<>>, 0, 0)

\* UNIX_EPOCH.elapsed() in recompute_node: the wall clock, never behind the
\* last-modified of an entry.
Now == MaxTime

\* The last call: its arguments, how it ended and what it returned.
Call(op, tid, segments, data, out, ret) ==
    [op |-> op, tid |-> tid, segments |-> segments, data |-> data, out |-> out,
     ret |-> ret]

Unit == <<>>

NoDiff == [some |-> FALSE, left |-> {}, right |-> {}, moved |-> {}]

Init ==
    /\ trees = [tid \in TreeIds |-> NewTree(RootEntry)]
    /\ last = Call("new", "B", <<>>, RootEntry, "ok", Unit)
    /\ found = NoDiff
    /\ received = [tid \in TreeIds |-> <<>>]
    /\ steps = [tid \in TreeIds |-> 0]
    /\ panicked = FALSE
    /\ heap = [tid \in TreeIds |-> 0]
    /\ scan = "init"
    /\ todo = <<>>
    /\ queue = <<>>
    /\ rx = "open"
    /\ last_recv = NoRecv
    /\ scan_panic = NoPanic
    /\ hashed = [p \in {} |-> 0]
    /\ retain = NoDecision

\* main builds tree1 to the end before it starts tree2, and nothing runs
\* after a panic.  At most `max` calls are made in all.
MayCall(tid, max) ==
    /\ ~panicked
    /\ steps["A"] + steps["B"] < max
    /\ tid = "A" => steps["B"] = 0

\* The allocations less the frees of a mutating call that returned: insert
\* allocates its node with Box::new, and the pointer BTreeMap::insert returns
\* for a key already present is discarded, not freed; remove frees the
\* removed node with Box::from_raw, and drop frees what it owns.
HeapDelta(op, t, segments) ==
    IF op = "insert" THEN 1
    ELSE IF op = "remove" THEN 0 - Cardinality(Subtree(t, segments))
    ELSE 0

\* What a mutating call leaves behind in the tree and its caller.
TreeCall(op, tid, segments, data, r) ==
    /\ trees' = [trees EXCEPT ![tid] = r.tree]
    /\ heap' = [heap EXCEPT ![tid] =
                   IF r.panic THEN @ ELSE @ + HeapDelta(op, trees[tid], segments)]
    /\ panicked' = r.panic
    /\ last' = IF r.panic THEN Call(op, tid, segments, NoData, "panic", Unit)
               ELSE Call(op, tid, segments, data, "ok", Unit)
    /\ steps' = [steps EXCEPT ![tid] = @ + 1]
    \* a diff borrows both trees: it is gone before either is written
    /\ found' = NoDiff

\* What a mutating call leaves behind.
Mutated(op, tid, segments, data, r) ==
    /\ TreeCall(op, tid, segments, data, r)
    /\ UNCHANGED <<scanVars, retain>>

\* What a read leaves behind.
Read(op, tid, segments, r, ret) ==
    /\ panicked' = r.panic
    /\ last' = IF r.panic THEN Call(op, tid, segments, NoData, "panic", Unit)
               ELSE Call(op, tid, segments, NoData, "ok", ret)
    /\ steps' = [steps EXCEPT ![tid] = @ + 1]
    /\ UNCHANGED <<trees, found, received, heap, scanVars, retain>>

\* MerkleTree::get
Get(tid, max) ==
    /\ MayCall(tid, max)
    /\ \E segments \in SegSeqs :
          LET r == NodeGet(trees[tid], <<>>, segments)
          IN Read("get", tid, segments, r, trees[tid][r.node].data)

\* MerkleTree::get_hash
GetHash(tid, max) ==
    /\ MayCall(tid, max)
    /\ \E segments \in SegSeqs :
          LET r == NodeGet(trees[tid], <<>>, segments)
          IN Read("get_hash", tid, segments, r, trees[tid][r.node].hash)

\* MerkleTree::insert
Insert(tid, max) ==
    /\ MayCall(tid, max)
    /\ \E segments \in SegSeqs :
         \E data \in EntriesAt(segments) :
            Mutated("insert", tid, segments, data,
                    NodeInsert(trees[tid], <<>>, segments, data, Now))
    /\ UNCHANGED received

\* MerkleTree::update
Update(tid, max) ==
    /\ MayCall(tid, max)
    /\ \E segments \in SegSeqs :
         \E data \in EntriesAt(segments) :
            Mutated("update", tid, segments, data,
                    NodeUpdate(trees[tid], <<>>, segments, data, Now))
    /\ UNCHANGED received

\* MerkleTree::remove
Remove(tid, max) ==
    /\ MayCall(tid, max)
    /\ \E segments \in SegSeqs :
            Mutated("remove", tid, segments, NoData,
                    NodeRemove(trees[tid], <<>>, segments, Now))
    /\ UNCHANGED received

\* MerkleTree::find_difference of tree A against tree B (main's loop).
Diff ==
    /\ ~panicked
    /\ found' = FindDifference(trees["A"], trees["B"])
    /\ last' = Call("find_difference", "A", <<>>, NoData, "ok", Unit)
    /\ UNCHANGED <<trees, received, steps, panicked, heap, scanVars, retain>>

\* One turn of compute_tree's receive loop: the entry of a path of the
\* scanned directory arrives, after the entry of its parent directory and
\* once per scan, and is inserted under its path components.
ScanInsert(tid, max) ==
    /\ MayCall(tid, max)
    /\ \E segments \in SegSeqs \ {<<>>} :
         /\ segments \notin DOMAIN trees[tid]
         /\ SubSeq(segments, 1, Len(segments) - 1) \in DOMAIN trees[tid]
         /\ \E data \in EntriesAt(segments) :
               Mutated("insert", tid, segments, data,
                       NodeInsert(trees[tid], <<>>, segments, data, Now))
         /\ received' = [received EXCEPT ![tid] = Append(@, segments)]

\* Every operation of the tree, on either tree.
Next ==
    \/ \E tid \in TreeIds :
          \/ Get(tid, MaxOps)
          \/ GetHash(tid, MaxOps)
          \/ Insert(tid, MaxOps)
          \/ Update(tid, MaxOps)
          \/ Remove(tid, MaxOps)
    \/ Diff

Spec == Init /\ [][Next]_vars

\* The mutations and the diff.
NextDiff ==
    \/ \E tid \in TreeIds :
          \/ Insert(tid, MaxMutations)
          \/ Update(tid, MaxMutations)
          \/ Remove(tid, MaxMutations)
    \/ Diff

SpecDiff == Init /\ [][NextDiff]_vars

\* main: two trees built by compute_tree, then diffed.
NextBuild ==
    \/ \E tid \in TreeIds : ScanInsert(tid, MaxInserts)
    \/ Diff

SpecBuild == Init /\ [][NextBuild]_vars

--------------------------------------------------------------------------
\* The scan: walk_directory, the walker's callbacks and the consumer.

\* A panic in the closure given to rayon::spawn: no panic handler is
\* installed, so the process aborts there.
Abort(msg) ==
    /\ scan' = "aborted"
    /\ scan_panic' = msg
    /\ UNCHANGED <<todo, queue, rx, last_recv, hashed>>

\* walk_directory: the channel is created and the scan is spawned.
WalkDirectory ==
    /\ ~panicked
    /\ scan = "init"
    /\ scan' = "spawned"
    /\ UNCHANGED <<todo, queue, rx, last_recv, scan_panic, hashed, treeVars, retain>>

\* walk_dir, first thing in the spawned closure: the global patterns are
\* built, the .gitignore of the ancestors up to the first one holding .git
\* are stacked (and dropped if there is none), and the walk starts at the
\* root.
WalkDir ==
    /\ scan = "spawned"
    /\ \E global \in {"error", "empty", "patterns"} :
       \E ancestors \in 0..MaxAncestors :
       \E is_in_git_repo, ignore_ok \in BOOLEAN :
          /\ is_in_git_repo => ancestors >= 1
          /\ IF global = "error" THEN Abort(GlobalIgnorePanic)
             ELSE IF ancestors >= 1 /\ ~ignore_ok THEN Abort(AddIgnorePanic)
             ELSE LET initial_state ==
                          JwalkState(global = "patterns",
                                     IF is_in_git_repo THEN ancestors ELSE 0,
                                     is_in_git_repo)
                  IN /\ scan' = "running"
                     /\ todo' = <<DirItem(<<>>, FALSE, initial_state)>>
                     /\ UNCHANGED <<queue, rx, last_recv, scan_panic, hashed>>
    /\ UNCHANGED <<treeVars, retain>>

\* The listings a directory can have; at depth MaxDepth there are no
\* directories.
Listings(path) ==
    IF Len(path) + 1 >= MaxDepth THEN [Segs -> ListingKinds \ {"dir"}]
    ELSE [Segs -> ListingKinds]

\* The children handed to retain as Ok(dir_entry).
Present(listing) == {k \in Segs : listing[k] \notin {"absent", "err"}}

\* The children retain keeps, in the order of the listing.
Children(path, listing, keep, state) ==
    LET ks == SelectSeq([k \in 1..NumSegs |-> k],
                        LAMBDA k : k \in Present(listing) /\ keep[k])
    IN [j \in 1..Len(ks) |->
           IF listing[ks[j]] = "dir" THEN DirItem(Child(path, ks[j]), FALSE, state)
           ELSE LeafItem(Child(path, ks[j]), listing[ks[j]])]

\* process_read_dir on a directory the walker has found: a .git in it
\* starts a new stack, its .gitignore is pushed when in a repository, and
\* the children are retained by should_retain_path; an Err child is dropped.
ProcessReadDir ==
    /\ scan = "running"
    /\ \E i \in 1..Len(todo) :
          /\ todo[i].kind = "dir"
          /\ ~todo[i].read
          /\ \E has_git, ignore_ok \in BOOLEAN :
                LET dir == todo[i]
                    reset == IF has_git
                             THEN JwalkState(dir.state.gitignore_global, 0, TRUE)
                             ELSE dir.state
                    read_dir_state ==
                        IF reset.is_in_git_repo
                        THEN [reset EXCEPT !.gitignore_files = @ + 1]
                        ELSE reset
                IN IF reset.is_in_git_repo /\ ~ignore_ok THEN Abort(AddIgnorePanic)
                   ELSE \E listing \in Listings(dir.path) :
                        \E keep \in [Present(listing) -> RetainOutcomes(read_dir_state)] :
                           /\ todo' = SubSeq(todo, 1, i - 1)
                                        \o <<DirItem(dir.path, TRUE, read_dir_state)>>
                                        \o Children(dir.path, listing, keep, read_dir_state)
                                        \o SubSeq(todo, i + 1, Len(todo))
                           /\ UNCHANGED <<scan, queue, rx, last_recv, scan_panic, hashed>>
    /\ UNCHANGED <<treeVars, retain>>

\* sender.send(entry).expect("unable to send") for the entry of todo[1].
Send(entry) ==
    IF rx = "dropped"
    THEN /\ scan' = "aborted"
         /\ scan_panic' = SendPanic
         /\ UNCHANGED <<todo, queue>>
    ELSE /\ queue' = Append(queue, entry)
         /\ todo' = Tail(todo)
         /\ UNCHANGED <<scan, scan_panic>>

\* A for_each closure that sends the files and passes over the directories.
ForEachFilesOnly ==
    /\ scan = "running"
    /\ todo # <<>>
    /\ todo[1].read
    /\ LET file == todo[1]
       IN IF file.path = <<>> \/ file.kind = "other" THEN
              /\ todo' = Tail(todo)
              /\ UNCHANGED <<scan, queue, scan_panic, hashed>>
          ELSE IF file.kind = "dir" THEN
              /\ todo' = Tail(todo)
              /\ UNCHANGED <<scan, queue, scan_panic, hashed>>
          ELSE \E fault \in {NoPanic} \cup IoPanics :
               \E contents \in Contents : \E m \in Times :
                  IF fault # NoPanic
                  THEN /\ scan' = "aborted"
                       /\ scan_panic' = fault
                       /\ UNCHANGED <<todo, queue, hashed>>
                  ELSE /\ Send(ScanFile(file.path, contents, m))
                       /\ hashed' = [p \in DOMAIN hashed \cup {file.path} |->
                                        IF p = file.path THEN contents ELSE hashed[p]]
    /\ UNCHANGED <<rx, last_recv, treeVars, retain>>

\* The closure of for_each on the next entry the walker yields (the root,
\* yielded first, is skipped): a directory is sent; a file is hashed,
\* opened, its metadata read, and sent; anything else is passed over.
ForEach ==
    /\ scan = "running"
    /\ todo # <<>>
    /\ todo[1].read
    /\ LET file == todo[1]
       IN IF file.path = <<>> \/ file.kind = "other" THEN
              /\ todo' = Tail(todo)
              /\ UNCHANGED <<scan, queue, scan_panic, hashed>>
          ELSE IF file.kind = "dir" THEN
              /\ Send(ScanDirectory(file.path))
              /\ UNCHANGED hashed
          ELSE \E fault \in {NoPanic} \cup IoPanics :
               \E contents \in Contents : \E m \in Times :
                  IF fault # NoPanic
                  THEN /\ scan' = "aborted"
                       /\ scan_panic' = fault
                       /\ UNCHANGED <<todo, queue, hashed>>
                  ELSE /\ Send(ScanFile(file.path, contents, m))
                       /\ hashed' = [p \in DOMAIN hashed \cup {file.path} |->
                                        IF p = file.path THEN contents ELSE hashed[p]]
    /\ UNCHANGED <<rx, last_recv, treeVars, retain>>

\* The walker has nothing left to yield: the closure returns and the sender
\* is dropped.
Finish ==
    /\ scan = "running"
    /\ todo = <<>>
    /\ scan' = "done"
    /\ UNCHANGED <<todo, queue, rx, last_recv, scan_panic, hashed, treeVars, retain>>

\* receiver.recv(): the next entry, or RecvError once the channel is empty
\* and the sender dropped; it blocks otherwise.
Recv ==
    /\ scan \notin {"init", "aborted"}
    /\ rx = "open"
    /\ \/ /\ queue # <<>>
          /\ last_recv' = RecvOk(Head(queue))
          /\ queue' = Tail(queue)
       \/ /\ queue = <<>>
          /\ scan = "done"
          /\ last_recv' = RecvError
          /\ UNCHANGED queue
    /\ UNCHANGED <<scan, todo, rx, scan_panic, hashed, treeVars, retain>>

\* The consumer drops the Receiver; the entries in the channel go with it.
DropReceiver ==
    /\ scan \notin {"init", "aborted"}
    /\ rx = "open"
    /\ rx' = "dropped"
    /\ queue' = <<>>
    /\ UNCHANGED <<scan, todo, last_recv, scan_panic, hashed, treeVars, retain>>

\* One scan and its consumer.
NextScan ==
    \/ WalkDirectory
    \/ WalkDir
    \/ ProcessReadDir
    \/ ForEach
    \/ Finish
    \/ Recv
    \/ DropReceiver

SpecScan == Init /\ [][NextScan]_vars

\* One turn of the loop of compute_tree: receiver.recv() gives the next
\* message, which is inserted under the components of its path below the
\* scanned directory, or Err once the channel is empty and the sender
\* dropped, which ends the loop.
ComputeTreeRecv ==
    /\ ~panicked
    /\ scan \notin {"init", "aborted"}
    /\ rx = "open"
    /\ ~last_recv.closed
    /\ \/ /\ queue # <<>>
          /\ LET message == Head(queue)
                 path_components == get_path(message)
             IN /\ TreeCall("insert", "A", path_components, message,
                            NodeInsert(trees["A"], <<>>, path_components, message, Now))
                /\ received' = [received EXCEPT !["A"] = Append(@, path_components)]
                /\ last_recv' = RecvOk(message)
          /\ queue' = Tail(queue)
       \/ /\ queue = <<>>
          /\ scan = "done"
          /\ last_recv' = RecvError
          /\ UNCHANGED <<queue, treeVars>>
    /\ UNCHANGED <<scan, todo, rx, scan_panic, hashed, retain>>

\* compute_tree: one scan and the loop that builds the tree from it.
NextCompute ==
    \/ WalkDirectory
    \/ WalkDir
    \/ ProcessReadDir
    \/ ForEach
    \/ Finish
    \/ ComputeTreeRecv

SpecCompute == Init /\ [][NextCompute]_vars

\* The states process_read_dir hands to should_retain_path: outside a
\* repository the stack is empty, inside it holds the directory's own layer.
ReadDirStates ==
    {JwalkState(global, 0, FALSE) : global \in BOOLEAN}
       \cup {JwalkState(global, files, TRUE) : global \in BOOLEAN, files \in 1..MaxLayers}

\* should_retain_path called on a child.
ShouldRetainPath ==
    /\ \E read_dir_state \in ReadDirStates :
       \E matches \in Matches(read_dir_state) : \E global_match \in Match :
          retain' = Decision(matches, global_match, read_dir_state)
    /\ UNCHANGED <<treeVars, scanVars>>

NextRetain == ShouldRetainPath

SpecRetain == Init /\ [][NextRetain]_vars

--------------------------------------------------------------------------
\* Properties.

IsLeaf(t, p) == t[p].children = <<>>

\* The keys of the children map of the node at p, whatever their order.
ChildKeys(t, p) == {k \in Segs : Child(p, k) \in DOMAIN t}

\* The elements of a set of segments in ascending order.
RECURSIVE Ascending(_)
Ascending(S) ==
    IF S = {} THEN <<>>
    ELSE LET least == CHOOSE k \in S : \A x \in S : k <= x
         IN <<least>> \o Ascending(S \ {least})

\* The digest of (child hash, child segment) over the children of the node
\* at p in ascending key order.
ChildrenDigest(t, p) ==
    LET keys == Ascending(ChildKeys(t, p))
    IN Digest([i \in 1..Len(keys) |-> <<t[Child(p, keys[i])].hash, keys[i]>>])

\* C1: after every public operation, every node that has a child has the
\* digest of its children's (hash, segment) in ascending key order as its
\* hash, the direct parent of a node just removed included.
C1_InteriorHashIsChildrenDigest ==
    \A tid \in TreeIds : \A p \in DOMAIN trees[tid] :
        ChildKeys(trees[tid], p) # {} => trees[tid][p].hash = ChildrenDigest(trees[tid], p)

\* C2: after every public operation, every node without children has the
\* hash of the Entry it stores as its hash (also a leaf whose Entry update
\* replaced, and a node whose last child was removed).
C2_LeafHashIsEntryHash ==
    \A tid \in TreeIds : \A p \in DOMAIN trees[tid] :
        ChildKeys(trees[tid], p) = {} => trees[tid][p].hash = get_hash(trees[tid][p].data)

\* remove called for each path of ps in turn.
RECURSIVE RemoveAll(_, _)
RemoveAll(t, ps) ==
    IF ps = <<>> THEN Returned(t)
    ELSE LET r == NodeRemove(t, <<>>, Head(ps), Now)
         IN IF r.panic THEN r ELSE RemoveAll(r.tree, Tail(ps))

\* insert called for each path of ps in turn, with the entry of the same rank.
RECURSIVE InsertAll(_, _, _)
InsertAll(t, ps, entries) ==
    IF ps = <<>> THEN Returned(t)
    ELSE LET r == NodeInsert(t, <<>>, Head(ps), Head(entries), Now)
         IN IF r.panic THEN r ELSE InsertAll(r.tree, Tail(ps), Tail(entries))

\* One or two distinct paths of t below the root, in some order.
RemovalOrders(t) ==
    LET below == DOMAIN t \ {<<>>}
    IN {<<p>> : p \in below} \cup {pq \in below \X below : pq[1] # pq[2]}

\* C3: in a tree reached by any sequence of operations, removing entries
\* and then inserting the same entries again (same paths, same entry
\* hashes, same order) restores the root hash the tree had before.
C3_RemoveReinsertRestoresRoot ==
    \A tid \in TreeIds : \A ps \in RemovalOrders(trees[tid]) :
        LET t == trees[tid]
            gone == RemoveAll(t, ps)
            back == InsertAll(gone.tree, ps, [i \in 1..Len(ps) |-> t[ps[i]].data])
        IN (/\ ~gone.panic
            /\ DOMAIN t \ DOMAIN gone.tree = {ps[i] : i \in 1..Len(ps)}
            /\ ~back.panic)
           => back.tree[<<>>].hash = t[<<>>].hash

\* C4: inserting (p, e) into a copy of a tree reached by any sequence of
\* operations changes the root hash, unless p already existed with an entry
\* of the same hash as e.
C4_InsertChangesRoot ==
    \A tid \in TreeIds : \A p \in SegSeqs : \A e \in EntriesAt(p) :
        LET t1 == trees[tid]
            r == NodeInsert(t1, <<>>, p, e, Now)
        IN ~r.panic =>
             \/ r.tree[<<>>].hash # t1[<<>>].hash
             \/ p \in DOMAIN t1 /\ get_hash(e) = get_hash(t1[p].data)

\* C5: insert under a key its parent already has fails with AlreadyExists,
\* and the node stored under that key and its subtree stay.
C5_InsertExistingKeyFails ==
    [][\A tid \in TreeIds :
          (/\ last'.op = "insert"
           /\ last'.tid = tid
           /\ last'.segments # <<>>
           /\ last'.segments \in DOMAIN trees[tid])
          => (last'.out = "AlreadyExists" /\ trees'[tid] = trees[tid])]_vars

\* The node a call must find: the parent for insert, the node itself for
\* the other operations.
Navigated(call) ==
    IF call.op = "insert" /\ call.segments # <<>>
    THEN SubSeq(call.segments, 1, Len(call.segments) - 1)
    ELSE call.segments

\* C6: get, hash_at, insert, update and remove called with a segment that
\* is absent return NotFound to the caller, and no operation of the tree
\* panics (insert and remove with no segment included).
C6_MissingSegmentReturnsNotFound ==
    [][/\ ~panicked'
       /\ \A tid \in TreeIds :
            (/\ last'.op \in {"get", "get_hash", "insert", "update", "remove"}
             /\ last'.tid = tid
             /\ NodeGet(trees[tid], <<>>, Navigated(last')).panic)
            => last'.out = "NotFound"]_vars

\* C8: update of an existing node replaces its Entry; a leaf's hash becomes
\* the entry's hash (what hash_at then returns) and every ancestor's hash is
\* recomputed from it; an interior node's hash is unchanged.
C8_UpdateSetsLeafHash ==
    [][\A tid \in TreeIds :
          (/\ last'.op = "update"
           /\ last'.tid = tid
           /\ last'.segments \in DOMAIN trees[tid])
          => LET s == last'.segments
                 before == trees[tid]
                 after == trees'[tid]
             IN /\ last'.out = "ok"
                /\ after[s].data = last'.data
                /\ IF IsLeaf(before, s)
                   THEN /\ after[s].hash = get_hash(last'.data)
                        /\ \A i \in 0..(Len(s) - 1) :
                              after[SubSeq(s, 1, i)].hash
                                 = ChildrenDigest(after, SubSeq(s, 1, i))
                   ELSE after[s].hash = before[s].hash]_vars

\* The (path, entry) pairs inserted into a tree.
Content(t) == {<<p, t[p].data>> : p \in DOMAIN t \ {<<>>}}

RootHash(t) == t[<<>>].hash

\* C7: two trees created with the same root entry into which the same set
\* of (path, entry) pairs was inserted, every parent before its children,
\* have equal root hashes, whatever the two orders of insertion.
C7_RootHashIgnoresInsertionOrder ==
    (/\ trees["A"][<<>>].data = trees["B"][<<>>].data
     /\ Content(trees["A"]) = Content(trees["B"]))
    => RootHash(trees["A"]) = RootHash(trees["B"])

\* Two siblings were inserted into A and B in different orders.
C7_Witness ==
    /\ Len(received["A"]) >= 2
    /\ received["A"] # received["B"]
    /\ Content(trees["A"]) = Content(trees["B"])
    /\ Len(trees["A"][<<>>].children) >= 2
    /\ RootHash(trees["A"]) = RootHash(trees["B"])

\* C9: find_difference returns None exactly when the two root hashes are
\* equal; the diff of a tree with itself is None.
C9_DiffNoneIffRootHashesEqual ==
    /\ ~FindDifference(trees["A"], trees["B"]).some
          <=> RootHash(trees["A"]) = RootHash(trees["B"])
    /\ ~FindDifference(trees["B"], trees["A"]).some
          <=> RootHash(trees["B"]) = RootHash(trees["A"])
    /\ \A tid \in TreeIds : ~FindDifference(trees[tid], trees[tid]).some
    /\ last.op = "find_difference"
          => (~found.some <=> RootHash(trees["A"]) = RootHash(trees["B"]))

\* The diff of two trees that both have children returned None.
C9_Witness ==
    /\ last.op = "find_difference"
    /\ ~found.some
    /\ ~IsLeaf(trees["A"], <<>>)
    /\ ~IsLeaf(trees["B"], <<>>)

\* C10: the two collections find_difference returns have no path in common.
C10_DiffSidesDisjoint ==
    /\ FindDifference(trees["A"], trees["B"]).left
          \cap FindDifference(trees["A"], trees["B"]).right = {}
    /\ FindDifference(trees["B"], trees["A"]).left
          \cap FindDifference(trees["B"], trees["A"]).right = {}
    /\ last.op = "find_difference" => found.left \cap found.right = {}

\* The diff returned two collections that both hold a path.
C10_Witness ==
    /\ last.op = "find_difference"
    /\ found.some
    /\ found.left # {}
    /\ found.right # {}

\* The paths both trees have a leaf at, with different hashes.
LeafPairs(ta, tb) ==
    {p \in DOMAIN ta \cap DOMAIN tb :
        IsLeaf(ta, p) /\ IsLeaf(tb, p) /\ ta[p].hash # tb[p].hash}

\* C11: find_difference(B, A) is None iff find_difference(A, B) is, and
\* otherwise its left collection is the right collection of
\* find_difference(A, B) and its right collection the left one, also when
\* two differing leaves have equal last-modified values.
C11_DiffSymmetric ==
    LET ab == FindDifference(trees["A"], trees["B"])
        ba == FindDifference(trees["B"], trees["A"])
    IN /\ ba.some = ab.some
       /\ ba.left = ab.right
       /\ ba.right = ab.left

\* What find_difference returns for the leaves a (self) and b (other) when
\* exactly one of them is reported: a on the left if it is the newer one,
\* b on the right otherwise.
OneLeafReported(r, a, b) ==
    /\ r.some
    /\ IF a.last_modified > b.last_modified
       THEN /\ DOMAIN r.left = {a.hash}
            /\ r.left[a.hash].entry = a.data
            /\ DOMAIN r.right = {}
       ELSE /\ DOMAIN r.left = {}
            /\ DOMAIN r.right = {b.hash}
            /\ r.right[b.hash].entry = b.data

\* C12: the comparison of two corresponding leaves with different hashes
\* reports exactly one of them: a on the left side if a.last_modified >
\* b.last_modified, otherwise b on the right side.
C12_LeafPairReportsNewerSide ==
    \A p \in LeafPairs(trees["A"], trees["B"]) :
        /\ OneLeafReported(NodeFindDifference(trees["A"], trees["B"], p),
                           trees["A"][p], trees["B"][p])
        /\ OneLeafReported(NodeFindDifference(trees["B"], trees["A"], p),
                           trees["B"][p], trees["A"][p])

\* The diff ran over two trees that differ in one leaf, newer in A, and
\* attributed the change to the left.
C12_Witness ==
    /\ last.op = "find_difference"
    /\ \E p \in LeafPairs(trees["A"], trees["B"]) :
          /\ p # <<>>
          /\ trees["A"][p].last_modified > trees["B"][p].last_modified
          /\ found.left = {p}
          /\ found.right = {}

\* tb is ta with one more leaf, at p.
AddedLeaf(ta, tb, p) ==
    /\ p \notin DOMAIN ta
    /\ DOMAIN tb = DOMAIN ta \cup {p}
    /\ \A q \in DOMAIN ta : tb[q].data = ta[q].data

\* C13: if T2 is a copy of T1 (built by inserts only) with one new leaf
\* inserted at a path p that T1 does not have, find_difference(T1, T2)
\* returns an empty left collection and a right collection holding exactly p.
C13_DiffDetectsRightOnlyAdd ==
    /\ \A tid \in TreeIds : \A p \in SegSeqs \ {<<>>} :
          (/\ p \notin DOMAIN trees[tid]
           /\ SubSeq(p, 1, Len(p) - 1) \in DOMAIN trees[tid])
          => \A e \in EntriesAt(p) :
                LET r == NodeInsert(trees[tid], <<>>, p, e, Now)
                    d == FindDifference(trees[tid], r.tree)
                IN ~r.panic /\ d.some /\ d.left = {} /\ d.right = {p}
    /\ \A p \in SegSeqs :
          (last.op = "find_difference" /\ AddedLeaf(trees["A"], trees["B"], p))
          => (found.some /\ found.left = {} /\ found.right = {p})

\* The diff ran over a tree with a child and the same tree with one more
\* leaf.
C13_Witness ==
    /\ last.op = "find_difference"
    /\ ~IsLeaf(trees["A"], <<>>)
    /\ \E p \in SegSeqs :
          /\ AddedLeaf(trees["A"], trees["B"], p)
          /\ found.left = {}
          /\ found.right = {p}

\* C14: when T1 has a file with hash H at x/y and T2 has a file with the
\* same hash at x/z and no x/y (and T1 no x/z), find_difference returns x/y
\* in the left collection and x/z in the right one and reports the two paths
\* as a move; every path of a reported move is in the change sets.
C14_MoveDetected ==
    LET ta == trees["A"]
        tb == trees["B"]
        d == FindDifference(ta, tb)
    IN /\ \A x \in DOMAIN ta \cap DOMAIN tb : \A y, z \in Segs :
            (/\ y # z
             /\ Child(x, y) \in DOMAIN ta /\ Child(x, y) \notin DOMAIN tb
             /\ Child(x, z) \in DOMAIN tb /\ Child(x, z) \notin DOMAIN ta
             /\ IsLeaf(ta, Child(x, y)) /\ IsLeaf(tb, Child(x, z))
             /\ get_hash(ta[Child(x, y)].data) = get_hash(tb[Child(x, z)].data))
            => /\ Child(x, y) \in d.left
               /\ Child(x, z) \in d.right
               /\ \/ <<Child(x, y), Child(x, z)>> \in d.moved
                  \/ <<Child(x, z), Child(x, y)>> \in d.moved
       /\ \A m \in d.moved : {m[1], m[2]} \subseteq d.left \cup d.right

\* The indices, counted from the innermost layer (0), of the layers that
\* say verdict of the path.
LayersFromInnermost(matches, verdict) ==
    {Len(matches) - i : i \in {j \in 1..Len(matches) : matches[j] = verdict}}

Least(S) == CHOOSE n \in S : \A m \in S : n <= m

\* The decision table of the scanner for a candidate child.
RetentionTable(matches, global_match, read_dir_state) ==
    LET ignore_layers == LayersFromInnermost(matches, "Ignore")
        whitelist_layers == LayersFromInnermost(matches, "Whitelist")
        global_ignored == read_dir_state.gitignore_global /\ global_match = "Ignore"
    IN IF ~read_dir_state.is_in_git_repo THEN TRUE
       ELSE IF ignore_layers = {} /\ whitelist_layers = {} THEN ~global_ignored
       ELSE IF ignore_layers = {} THEN TRUE
       ELSE IF whitelist_layers = {} THEN FALSE
       ELSE Least(whitelist_layers) < Least(ignore_layers)

\* C15: a candidate child is retained if not inside a Git repository;
\* otherwise, with ignore_layer and whitelist_layer the innermost-first
\* indices of the first layer that ignores / whitelists it: (none, none)
\* retained iff the global patterns do not ignore it; (none, some) retained;
\* (some, none) dropped; (some I, some W) retained iff W < I.
C15_RetentionFollowsDecisionTable ==
    retain.called
    => retain.result
         = RetentionTable(retain.matches, retain.global_match, retain.read_dir_state)

\* An outer layer ignores the child, the innermost one whitelists it, and it
\* is retained.
C15_Witness ==
    /\ retain.called
    /\ retain.read_dir_state.is_in_git_repo
    /\ retain.matches = <<"Ignore", "Whitelist">>
    /\ retain.result

\* A capacity smaller than the number of entries of the largest scan.
QueueCapacity == Cardinality(SegSeqs \ {<<>>}) - 1

\* C16: the number of entries sent and not yet received never exceeds a
\* fixed capacity: a send waits while the queue is full.
C16_QueueBounded == Len(queue) <= QueueCapacity

\* C17: a failure to open, stat or hash one file is reported and the entry
\* skipped: it never ends the scan.
C17_IoErrorDoesNotAbortScan == ~(scan = "aborted" /\ scan_panic \in IoPanics)

\* C18: once the consumer has dropped the receiving side, the producer ends
\* the scan at its next send without a panic or an abort of the process.
C18_CancelTerminatesOrderly ==
    rx = "dropped" => ~(scan = "aborted" /\ scan_panic = SendPanic)

\* C19: when the global ignore patterns cannot be assembled the scanner is
\* FAILED: it has ended and the consumer, still running, is given the error.
C19_FatalErrorSurfaced == scan_panic = GlobalIgnorePanic => scan = "failed"

\* The File entries in the channel or just received.
EmittedFiles ==
    {queue[i] : i \in {j \in 1..Len(queue) : queue[j].kind = "File"}}
       \cup (IF last_recv.ok /\ last_recv.entry.kind = "File"
             THEN {last_recv.entry} ELSE {})

\* C20: every File entry the scanner emits carries the digest of the file's
\* basename followed by its contents, so that two files of equal contents
\* and different names have different hashes.
C20_FileHashCoversName ==
    /\ \A e \in EmittedFiles : e.hash = from_path_hash(e.path, hashed[e.path])
    /\ \A e1, e2 \in EmittedFiles :
          e1.path[Len(e1.path)] # e2.path[Len(e2.path)] => e1.hash # e2.hash

\* The leaves of the subtree of t rooted at c.
LeavesUnder(t, c) == {q \in Subtree(t, c) : IsLeaf(t, q)}

\* The keys of the children map of ta at p that the one of tb lacks.
KeysOnlyIn(ta, tb, p) == ChildKeys(ta, p) \ ChildKeys(tb, p)

\* No two nodes below the roots of the two trees carry the same hash.
HashesDistinct(ta, tb) ==
    LET nodes == {<<"A", p>> : p \in DOMAIN ta \ {<<>>}}
                    \cup {<<"B", p>> : p \in DOMAIN tb \ {<<>>}}
        hash(n) == IF n[1] = "A" THEN ta[n[2]].hash ELSE tb[n[2]].hash
    IN \A n1, n2 \in nodes : n1 # n2 => hash(n1) # hash(n2)

\* C21: when the nodes at a path of A and of B are both interior and are
\* diffed, every leaf below a child whose key only A's children map has is
\* in the left side, and every leaf below a child whose key only B's map has
\* is in the right side (stated for trees without two nodes of one hash, so
\* that no collected node replaces another).
C21_OneSidedSubtreeLeavesCollected ==
    \A p \in DOMAIN trees["A"] \cap DOMAIN trees["B"] :
       (/\ HashesDistinct(trees["A"], trees["B"])
        /\ ~IsLeaf(trees["A"], p)
        /\ ~IsLeaf(trees["B"], p)
        /\ trees["A"][p].hash # trees["B"][p].hash)
       => LET r == NodeFindDifference(trees["A"], trees["B"], p)
          IN /\ \A k \in KeysOnlyIn(trees["A"], trees["B"], p) :
                   LeavesUnder(trees["A"], Child(p, k)) \subseteq Paths(r.left)
             /\ \A k \in KeysOnlyIn(trees["B"], trees["A"], p) :
                   LeavesUnder(trees["B"], Child(p, k)) \subseteq Paths(r.right)

\* The nodes a tree owns and reaches from its root, the root left out.
Reachable(t) == DOMAIN t \ {<<>>}

\* C25: after any sequence of insert, update and remove every node that is
\* allocated and not freed is reachable from the root of its tree through
\* the children maps: no call leaves a node allocated and unreachable, also
\* not an insert under a key its parent already has.
C25_NoNodeLeaked ==
    \A tid \in TreeIds : heap[tid] = Cardinality(Reachable(trees[tid]))

\* The two trees hold the same paths and, at every path, entries of equal
\* hash.
SameEntries(ta, tb) ==
    /\ DOMAIN ta = DOMAIN tb
    /\ \A p \in DOMAIN ta : get_hash(ta[p].data) = get_hash(tb[p].data)

\* C23: for trees reached by insert, update and remove, find_difference
\* returns None exactly when the two trees hold the same paths with equal
\* entry hashes at every path, and when it returns Some one of the two
\* returned collections is not empty.
C23_DiffNoneIffSameEntries ==
    LET d == FindDifference(trees["A"], trees["B"])
    IN /\ ~d.some <=> SameEntries(trees["A"], trees["B"])
       /\ d.some => (d.left # {} \/ d.right # {})

\* The paths of the entries of the children of the node at p.
ChildPaths(t, p) == {get_path(t[Child(p, k)].data) : k \in ChildKeys(t, p)}

\* The nodes the recursive diff classifies as changed, as two sets of paths:
\* the cases of TreeNode::find_difference and find_diff_in_children, with
\* each classified node kept under its path.
RECURSIVE ChangedNodes(_, _, _)
ChangedNodes(ta, tb, p) ==
    LET a == ta[p]
        b == tb[p]
        common == ChildKeys(ta, p) \cap ChildKeys(tb, p)
    IN IF a.hash = b.hash THEN [left |-> {}, right |-> {}]
       ELSE IF IsLeaf(ta, p) /\ IsLeaf(tb, p) THEN
            IF a.last_modified > b.last_modified
            THEN [left |-> {get_path(a.data)}, right |-> {}]
            ELSE [left |-> {}, right |-> {get_path(b.data)}]
       ELSE IF IsLeaf(ta, p) THEN [left |-> {}, right |-> ChildPaths(tb, p)]
       ELSE IF IsLeaf(tb, p) THEN [left |-> ChildPaths(ta, p), right |-> {}]
       ELSE [left |->
                {get_path(ta[Child(p, k)].data) : k \in KeysOnlyIn(ta, tb, p)}
                   \cup UNION {ChangedNodes(ta, tb, Child(p, k)).left : k \in common},
             right |->
                {get_path(tb[Child(p, k)].data) : k \in KeysOnlyIn(tb, ta, p)}
                   \cup UNION {ChangedNodes(ta, tb, Child(p, k)).right : k \in common}]

\* C24: every node the recursive diff classifies as changed on one side has
\* its path in the list returned for that side, also when two such nodes at
\* different paths of one side carry the same hash.
C24_EveryChangedNodeReturned ==
    LET d == FindDifference(trees["A"], trees["B"])
        c == ChangedNodes(trees["A"], trees["B"], <<>>)
    IN d.some => (d.left = c.left /\ d.right = c.right)

\* The path of the parent of the node at p.
ParentPath(p) == SubSeq(p, 1, Len(p) - 1)

\* C26: compute_tree's inserts never fail on a missing intermediate
\* segment: whatever the scan has sent and the loop has yet to receive, the
\* parent of every entry in the channel is in the tree or ahead of it in the
\* channel, and no insert of the loop has panicked.
C26_ParentInsertedBeforeChild ==
    /\ ~panicked
    /\ last.op = "insert" => last.out = "ok"
    /\ \A i \in 1..Len(queue) :
          ParentPath(queue[i].path) \in
             DOMAIN trees["A"] \cup {queue[j].path : j \in 1..(i - 1)}

\* The loop has inserted an entry two levels below the scanned directory.
C26_Witness ==
    /\ last.op = "insert"
    /\ last.out = "ok"
    /\ Len(last.segments) = 2
    /\ last_recv.ok
    /\ last.segments \in DOMAIN trees["A"]

\* compute_tree can take no further step: the scan and the loop have ended,
\* or the process has.
ComputeEnded == ~ENABLED NextCompute

\* C22: a started scan whose consumer keeps receiving ends with the scan in
\* a terminal state that leaves the channel closed, and with the loop of the
\* consumer ended by the end-of-scan it observed, every entry sent having
\* been received: stated of the states in which nothing more can happen.
C22_ScanEndsAndConsumerObservesEnd ==
    (scan # "init" /\ ComputeEnded)
    => /\ scan \in {"done", "failed"}
       /\ last_recv.closed
       /\ queue = <<>>

====
